---- MODULE Spec2Model ----
(***************************************************************************)
(* Lesson completion of pages/enrollments/[id].js: getServerSideProps      *)
(* reads the enrollment from the Content Store and hands the snapshot to   *)
(* addLesson, which looks the lesson up, checks membership in the snapshot *)
(* and replaces the enrollment's lessons_completed list with a PATCH.      *)
(* Several requests run concurrently against one enrollment; every await   *)
(* of the code is a point where another request may run.                   *)
(***************************************************************************)
EXTENDS Integers, Sequences, FiniteSets, TLC

\* Bounds of the model.
NumProcs == 2       \* requests that may be in flight at the same time
MaxCalls == 3       \* requests started in one behaviour
MaxStored == 2      \* rows of lessons_completed in the initial store

Procs == 1..NumProcs

\* Lesson ids a request may carry (completed_lesson_id).
LessonIds == {"L1", "L2"}

\* Lesson ids the rows of the initial store may hold.
StoredIds == {"L1", "L3"}

\* lms_lessons_id of a junction row that resolves to no lesson (JSON null).
NoLesson == "null"

\* A junction row as the enrollment read returns it and as the PATCH sends it.
Row(id) == [lms_lessons_id |-> id]

Rows == {Row(id) : id \in StoredIds \cup {NoLesson}}

RECURSIVE SeqsUpTo(_, _)
SeqsUpTo(S, n) ==
    IF n = 0 THEN {<< >>}
    ELSE LET shorter == SeqsUpTo(S, n - 1)
         IN  shorter \cup {Append(s, x) : s \in {t \in shorter : Len(t) = n - 1}, x \in S}

Range(s) == {s[i] : i \in DOMAIN s}

Count(s, x) == Cardinality({i \in DOMAIN s : s[i] = x})

VARIABLES
    lessons_completed,  \* Content Store: the enrollment's junction rows
    pc,                 \* pc[p]: where request p's addLesson stands
    lessonId,           \* lessonId[p]: completed_lesson_id of request p
    enrollment,         \* enrollment[p]: rows read by request p (line 47)
    lessonResponse,     \* lessonResponse[p]: outcome of the lesson lookup
    body,               \* body[p]: lessons_completed of the PATCH request p sent
    patches,            \* patches[p]: PATCH requests sent by p's current call
    status,             \* status[p]: what addLesson returned
    updateResponse,     \* updateResponse[p]: outcome of the PATCH
    stored0,            \* history: lessons_completed before the first request
    ncalls,             \* history: requests started so far
    asked,              \* history: lesson ids requested so far
    overlap,            \* history: some request started while another was in flight
    applied,            \* history: lesson ids whose PATCH the store applied
    completed,          \* history: lesson ids for which addLesson returned 201
    course,             \* Content Store: the raw course of the enrollment
    gpc,                \* where the getServerSideProps of the view request stands
    snapshot,           \* its local enrollment (line 47)
    enrollmentResponse, \* outcome of its latest enrollment fetch
    courseResponse,     \* outcome of its course fetch
    props,              \* the props it returned
    res,                \* the response of the lessons-to-complete handler
    courseData,         \* the course object of line 102, as the build leaves it
    listed,             \* lesson ids EnrollmentPage lists under Lessons to Complete
    buttonState,        \* buttonState[p]: state of the button of lesson page p
    errorMessage,       \* errorMessage[p]: message shown by lesson page p
    sent                \* sent[p]: completion requests lesson page p has sent

addVars == <<lessons_completed, pc, lessonId, enrollment, lessonResponse,
             body, patches, status, updateResponse, stored0, ncalls, asked,
             overlap, applied, completed>>

viewVars == <<course, gpc, snapshot, enrollmentResponse, courseResponse, props,
              res>>

buttonVars == <<buttonState, errorMessage, sent>>

pageVars == <<courseData, listed, buttonVars>>

vars == <<addVars, viewVars, pageVars>>

----------------------------------------------------------------------------
\* fetch() outcomes: a response with a status, or an exception (no response).

Response(st) == [threw |-> FALSE, status |-> st, applied |-> FALSE]

NetworkError == [threw |-> TRUE, status |-> 0, applied |-> FALSE]

NoResponse == [threw |-> FALSE, status |-> 0, applied |-> FALSE]

\* Response.ok of the fetch API: a status in the range 200-299.
Ok(response) == response.status \in 200..299

\* GET /items/lms_lessons/<id>: 200 when the store finds the lesson, 404 when
\* it does not, 503 when the store is unavailable, or the fetch throws.
LessonResponses ==
    {Response(200), Response(404), Response(503), NetworkError}

\* PATCH /items/lms_enrollments/<id>: accepted and applied, rejected and not
\* applied, or the fetch throws, the request applied by the store or not.
UpdateResponses ==
    {[threw |-> FALSE, status |-> 200, applied |-> TRUE],
     Response(403),
     NetworkError,
     [threw |-> TRUE, status |-> 0, applied |-> TRUE]}

----------------------------------------------------------------------------
\* addLesson, lines 168-223.

\* lines 180-184: filter(lesson => lesson && lesson.lms_lessons_id).map(... .id)
CompletedLessonIds(e) ==
    LET kept == SelectSeq(e, LAMBDA row : row.lms_lessons_id # NoLesson)
    IN  [i \in DOMAIN kept |-> kept[i].lms_lessons_id]

\* line 187: completedLessonIds.includes(lessonId)
AlwaysAbsent(ids, id) == FALSE

Includes(ids, id) == \E i \in DOMAIN ids : ids[i] = id

\* line 193: [...completedLessonIds, lessonId]
OnlyNewLesson(ids, id) == <<id>>

UpdatedLessonIds(ids, id) == Append(ids, id)

\* lines 196-198: updatedLessonIds.map(id => ({lms_lessons_id: id}))
LessonCompletions(ids) == [i \in DOMAIN ids |-> Row(ids[i])]

\* lines 175-177: a lookup that is not ok returns the lookup's status.
AlwaysPasses(response) == TRUE

LookupPasses(response) == Ok(response)

\* lines 213-221: a rejected update throws, and every exception returns 500.
AlwaysCreated(response) == 201

UpdateResponseStatus(response) ==
    IF response.threw \/ ~Ok(response) THEN 500 ELSE response.status

UpdateStatus(response) ==
    IF response.threw \/ ~Ok(response) THEN 500 ELSE 201

\* The store replaces the whole list by the PATCH's lessons_completed.
Replace(rows, payload) == payload

InFlight(p) == pc[p] \in {"lesson", "update"}

\* addLesson returns st to its caller; its locals go out of scope.
Return(p, st) ==
    /\ pc' = [pc EXCEPT ![p] = "done"]
    /\ status' = [status EXCEPT ![p] = st]
    /\ enrollment' = [enrollment EXCEPT ![p] = << >>]
    /\ body' = [body EXCEPT ![p] = << >>]
    /\ completed' = IF st = 201 THEN completed \cup {lessonId[p]} ELSE completed

----------------------------------------------------------------------------
\* The progress view of getServerSideProps (lines 62-163).

MaxLessons == 2     \* lessons a raw module may hold

\* A JSON value that may be null: None is null, Some(x) is the value x.
None == << >>

Some(x) == <<x>>

\* The sort field of a module or a lesson: null or a number.
SortKeys == {None, Some(1)}

\* sort || 0, and the number a sort field is coerced to by a subtraction.
OrZero(sort) == IF sort = None THEN 0 ELSE sort[1]

\* Ids of the course's modules, and of each module's lessons, by position in
\* the raw course.
ModuleIds == <<"M1", "M2">>

LessonTable == << <<"L1", "L2", "L5">>, <<"L3", "L4", "L6">> >>

\* modules.lessons of module m as the course read returns it.
RawLessons(m) ==
    UNION {{[j \in 1..n |-> [id |-> LessonTable[m][j], sort |-> k[j]]] :
               k \in [1..n -> SortKeys]} : n \in 0..MaxLessons}

RawModules(m) ==
    {[id |-> ModuleIds[m], sort |-> s, lessons |-> l] :
        s \in SortKeys, l \in {None} \cup {Some(x) : x \in RawLessons(m)}}

ModuleLists ==
    UNION {{f \in [1..n -> UNION {RawModules(i) : i \in 1..n}] :
               \A i \in 1..n : f[i] \in RawModules(i)} :
           n \in 0..Len(ModuleIds)}

\* data of the course read (lines 82-102).
RawCourses ==
    {[id |-> "C1", modules |-> ms] :
        ms \in {None} \cup {Some(x) : x \in ModuleLists}}

\* The lesson record of a completed lesson that belongs to no module of the
\* course any more.
Orphan(id) == [id |-> id, sort |-> None, module |-> [id |-> "M0", sort |-> None]]

\* lessons_completed.lms_lessons_id with its module, as the enrollment read
\* expands it (lines 28-33): the lesson's fields are those of the course.
LessonRecord(id, c) ==
    LET ms == IF c.modules = None THEN << >> ELSE c.modules[1]
        ls(i) == IF ms[i].lessons = None THEN << >> ELSE ms[i].lessons[1]
        at == {<<i, j>> \in (DOMAIN ms) \X (1..Len(LessonTable[1])) :
                  j \in DOMAIN ls(i) /\ ls(i)[j].id = id}
    IN  IF at = {} THEN Orphan(id)
        ELSE LET ij == CHOOSE x \in at : TRUE
             IN  [id |-> id, sort |-> ls(ij[1])[ij[2]].sort,
                  module |-> [id |-> ms[ij[1]].id, sort |-> ms[ij[1]].sort]]

\* Array.prototype.sort of s, where diff[i, j] is what the comparator returns
\* for s[i] and s[j]: the sort is stable, so s[i] comes after every element
\* that compares lower and every earlier one that compares equal.
StableSort(s, diff) ==
    LET Rank(i) == 1 + Cardinality({j \in DOMAIN s :
                         \/ diff[j, i] < 0
                         \/ diff[j, i] = 0 /\ j < i})
    IN  [k \in DOMAIN s |-> s[CHOOSE i \in DOMAIN s : Rank(i) = k]]

\* A comparator that ignores the modules.
ByLessonOnly(a, b) == OrZero(a.sort) - OrZero(b.sort)

\* The comparator of lines 73-77.
ByModuleThenLesson(a, b) ==
    LET moduleSortDiff == OrZero(a.module.sort) - OrZero(b.module.sort)
    IN  IF moduleSortDiff # 0 THEN moduleSortDiff
        ELSE OrZero(a.sort) - OrZero(b.sort)

\* A comparator for a descending order.
Descending(a, b) == OrZero(b.sort) - OrZero(a.sort)

\* The comparator of lines 108 and 115.
SortDiff(a, b) == OrZero(a.sort) - OrZero(b.sort)

\* Lines 63-72 throw on a row whose lms_lessons_id is null.
Malformed(rows) == \E i \in DOMAIN rows : rows[i].lms_lessons_id = NoLesson

\* completedLessons (lines 63-77): one item for every row, then the sort.
CompletedLessons(rows, c) ==
    LET items == [i \in DOMAIN rows |-> LessonRecord(rows[i].lms_lessons_id, c)]
    IN  StableSort(items, [i, j \in DOMAIN items |->
                              ByModuleThenLesson(items[i], items[j])])

\* module.lessons of formattedCourse (lines 113-123).
FormattedLessons(lessons) ==
    IF lessons = None THEN << >>
    ELSE LET raw == lessons[1]
             sorted == StableSort(raw, [i, j \in DOMAIN raw |->
                                          SortDiff(raw[i], raw[j])])
         IN  [j \in DOMAIN sorted |->
                 [id |-> sorted[j].id, sort |-> OrZero(sorted[j].sort)]]

\* formattedCourse (lines 104-127).
FormattedCourse(c) ==
    [id |-> c.id,
     modules |->
        IF c.modules = None THEN << >>
        ELSE LET raw == c.modules[1]
                 sorted == StableSort(raw, [i, j \in DOMAIN raw |->
                                              SortDiff(raw[i], raw[j])])
             IN  [i \in DOMAIN sorted |->
                     [id |-> sorted[i].id, sort |-> OrZero(sorted[i].sort),
                      lessons |-> FormattedLessons(sorted[i].lessons)]]]

\* The course object after the build: the sort calls of lines 108 and 115
\* sort course.modules and every module.lessons in place; the fields of the
\* nodes are not assigned.
SortedInPlace(c) ==
    [c EXCEPT !.modules =
        IF c.modules = None THEN None
        ELSE LET raw == c.modules[1]
                 sorted == StableSort(raw, [i, j \in DOMAIN raw |->
                                              SortDiff(raw[i], raw[j])])
             IN  Some([i \in DOMAIN sorted |->
                     [sorted[i] EXCEPT !.lessons =
                         IF sorted[i].lessons = None THEN None
                         ELSE LET rl == sorted[i].lessons[1]
                              IN  Some(StableSort(rl,
                                      [j, k \in DOMAIN rl |->
                                          SortDiff(rl[j], rl[k])]))]])]

RECURSIVE Reduce(_, _)
\* The reduce of lines 130-132 over modules[from..].
Reduce(modules, from) ==
    IF from > Len(modules) THEN 0
    ELSE Len(modules[from].lessons) + Reduce(modules, from + 1)

TotalLessonsCount(formatted) == Reduce(formatted.modules, 1)

\* A remainingCount that never goes below 0.
ClampedRemaining(total, done) == IF done > total THEN 0 ELSE total - done

\* remainingCount of line 137.
Remaining(total, done) == total - done

\* progressStats (lines 134-138).
ProgressStats(totalLessonsCount, completedLessons) ==
    [totalLessons |-> totalLessonsCount,
     completedCount |-> Len(completedLessons),
     remainingCount |-> Remaining(totalLessonsCount, Len(completedLessons))]

\* The props of a view that was built (lines 140-150).
ViewProps(rows, c) ==
    LET completedLessons == CompletedLessons(rows, c)
        formattedCourse == FormattedCourse(c)
    IN  [enrollment |-> Some(rows),
         completedLessons |-> completedLessons,
         lessonsToComplete |-> formattedCourse,
         progressStats |->
             ProgressStats(TotalLessonsCount(formattedCourse), completedLessons),
         error |-> None,
         errorStatus |-> None]

\* An Error the code throws or a fetch rejects with: it has a message and no
\* status.
Error(message) == [message |-> message, status |-> None]

\* error.status || 500 (line 160).
ErrorStatus(error) == IF error.status = None THEN 500 ELSE error.status[1]

\* Fallback props that keep an enrollment.
ErrorPropsWithEnrollment(error) ==
    [enrollment |-> Some(<< >>),
     completedLessons |-> << >>,
     lessonsToComplete |-> [modules |-> << >>],
     progressStats |-> [totalLessons |-> 0, completedCount |-> 0,
                        remainingCount |-> 0],
     error |-> Some(error.message),
     errorStatus |-> Some(ErrorStatus(error))]

\* The props of the catch block (lines 151-163).
ErrorProps(error) ==
    [enrollment |-> None,
     completedLessons |-> << >>,
     lessonsToComplete |-> [modules |-> << >>],
     progressStats |-> [totalLessons |-> 0, completedCount |-> 0,
                        remainingCount |-> 0],
     error |-> Some(error.message),
     errorStatus |-> Some(ErrorStatus(error))]

----------------------------------------------------------------------------
\* The store is also written by other clients of the Content Store, so the
\* rows found by the first request may repeat a lesson or resolve to none.
AddIdle ==
    /\ lessons_completed \in SeqsUpTo(Rows, MaxStored)
    /\ pc = [p \in Procs |-> "idle"]
    /\ lessonId = [p \in Procs |-> NoLesson]
    /\ enrollment = [p \in Procs |-> << >>]
    /\ lessonResponse = [p \in Procs |-> NoResponse]
    /\ body = [p \in Procs |-> << >>]
    /\ patches = [p \in Procs |-> 0]
    /\ status = [p \in Procs |-> 0]
    /\ updateResponse = [p \in Procs |-> NoResponse]
    /\ stored0 = lessons_completed
    /\ ncalls = 0
    /\ asked = {}
    /\ overlap = FALSE
    /\ applied = {}
    /\ completed = {}

\* The course the concurrent requests of one enrollment run against.
TheCourse ==
    [id |-> "C1",
     modules |-> Some(<<[id |-> "M1", sort |-> Some(1),
                         lessons |-> Some(<<[id |-> "L1", sort |-> Some(1)],
                                            [id |-> "L2", sort |-> None]>>)]>>)]

\* No response was sent by the lessons-to-complete handler yet.
NoReply == [status |-> 0, fetches |-> 0, body |-> None]

\* No progress-view request was made yet.
ViewIdle ==
    /\ gpc = "idle"
    /\ snapshot = None
    /\ enrollmentResponse = NoResponse
    /\ courseResponse = NoResponse
    /\ props = None
    /\ res = NoReply

\* No page was rendered and no button was clicked yet.
PageIdle ==
    /\ courseData = None
    /\ listed = None
    /\ buttonState = [p \in Procs |-> "default"]
    /\ errorMessage = [p \in Procs |-> ""]
    /\ sent = [p \in Procs |-> 0]

Init ==
    /\ AddIdle
    /\ course = TheCourse
    /\ ViewIdle
    /\ PageIdle

\* getServerSideProps lines 42-48 with completed_lesson_id = id: the
\* enrollment is read and addLesson is called with the snapshot; addLesson
\* runs to its first await, the lesson lookup (line 174).  Requests are
\* numbered in the order of their first use.
Request(p, id) ==
    /\ ~InFlight(p)
    /\ \A q \in Procs : q < p => pc[q] # "idle"
    /\ ncalls < MaxCalls
    /\ ncalls' = ncalls + 1
    /\ pc' = [pc EXCEPT ![p] = "lesson"]
    /\ lessonId' = [lessonId EXCEPT ![p] = id]
    /\ enrollment' = [enrollment EXCEPT ![p] = lessons_completed]
    /\ lessonResponse' = [lessonResponse EXCEPT ![p] = NoResponse]
    /\ patches' = [patches EXCEPT ![p] = 0]
    /\ status' = [status EXCEPT ![p] = 0]
    /\ updateResponse' = [updateResponse EXCEPT ![p] = NoResponse]
    /\ asked' = asked \cup {id}
    /\ overlap' = (overlap \/ \E q \in Procs \ {p} : InFlight(q))
    /\ UNCHANGED <<lessons_completed, body, stored0, applied, completed>>

\* addLesson lines 174-211: the lookup's outcome arrives; the call returns on
\* an exception, a lookup that is not ok, or a lesson already in the snapshot,
\* and otherwise sends the PATCH.
LessonLookup(p) ==
    /\ pc[p] = "lesson"
    /\ \E response \in LessonResponses :
        LET ids == CompletedLessonIds(enrollment[p])
        IN  /\ lessonResponse' = [lessonResponse EXCEPT ![p] = response]
            /\ IF response.threw
                 THEN /\ Return(p, 500)
                      /\ UNCHANGED patches
               ELSE IF ~LookupPasses(response)
                 THEN /\ Return(p, response.status)
                      /\ UNCHANGED patches
               ELSE IF Includes(ids, lessonId[p])
                 THEN /\ Return(p, 200)
                      /\ UNCHANGED patches
               ELSE /\ pc' = [pc EXCEPT ![p] = "update"]
                    /\ body' = [body EXCEPT ![p] =
                           LessonCompletions(UpdatedLessonIds(ids, lessonId[p]))]
                    /\ patches' = [patches EXCEPT ![p] = patches[p] + 1]
                    /\ UNCHANGED <<status, enrollment, completed>>
    /\ UNCHANGED <<lessons_completed, lessonId, updateResponse, stored0, ncalls,
                   asked, overlap, applied>>

\* addLesson lines 202-222: the PATCH's outcome arrives.
Update(p) ==
    /\ pc[p] = "update"
    /\ \E response \in UpdateResponses :
        /\ updateResponse' = [updateResponse EXCEPT ![p] = response]
        /\ lessons_completed' =
               IF response.applied THEN Replace(lessons_completed, body[p])
               ELSE lessons_completed
        /\ applied' = IF response.applied THEN applied \cup {lessonId[p]}
                      ELSE applied
        /\ Return(p, UpdateStatus(response))
    /\ UNCHANGED <<lessonId, lessonResponse, patches, stored0, ncalls, asked,
                   overlap>>

Next ==
    \/ \E p \in Procs, id \in LessonIds : Request(p, id) /\ UNCHANGED <<viewVars, pageVars>>
    \/ \E p \in Procs : LessonLookup(p) /\ UNCHANGED <<viewVars, pageVars>>
    \/ \E p \in Procs : Update(p) /\ UNCHANGED <<viewVars, pageVars>>

Spec == Init /\ [][Next]_vars

----------------------------------------------------------------------------
\* The progress-view request: getServerSideProps (lines 5-165).

EnrollmentResponses == {Response(200), Response(404), Response(503), NetworkError}

CourseResponses == {Response(200), Response(404), Response(503), NetworkError}

\* A read of the store failed: the fetch threw or line 43, 56 or 98 throws.
Failed(response) == response.threw \/ ~Ok(response)

\* The outer enrollment after the re-read of lines 54-58: line 58 declares a
\* new enrollment in the block of the if, so the outer one keeps its value.
Refetched(outer, data) == outer

\* The catch block returns the fallback props.
Catch(error) ==
    /\ gpc' = "returned"
    /\ props' = ErrorProps(error)

\* A request that is always taken to carry a lesson to complete.
AlwaysCarries(completed_lesson_id) == TRUE

\* completed_lesson_id ? ... : null (line 48).
Carries(completed_lesson_id) == completed_lesson_id # None

\* Lines 5-48: the enrollment is read; with a completed_lesson_id, addLesson is
\* called and runs to its first await, and its promise is not awaited.
GetEnrollment(completed_lesson_id) ==
    /\ gpc = "idle"
    /\ \E response \in EnrollmentResponses :
        /\ enrollmentResponse' = response
        /\ IF Failed(response)
             THEN /\ Catch(Error("Failed to fetch enrollment"))
                  /\ UNCHANGED <<snapshot, addVars>>
           ELSE /\ snapshot' = Some(lessons_completed)
                /\ props' = props
                /\ IF ~Carries(completed_lesson_id)
                     THEN /\ gpc' = "course"
                          /\ UNCHANGED addVars
                   ELSE /\ gpc' = "refetch"
                        /\ Request(1, IF completed_lesson_id = None THEN NoLesson
                                       ELSE completed_lesson_id[1])
    /\ UNCHANGED <<course, courseResponse, res, pageVars>>

\* Lines 53-60: the promise of addLesson is truthy, so the enrollment is read
\* again.
Refetch ==
    /\ gpc = "refetch"
    /\ \E response \in EnrollmentResponses :
        /\ enrollmentResponse' = response
        /\ IF Failed(response)
             THEN /\ Catch(Error("Failed to fetch enrollment"))
                  /\ UNCHANGED snapshot
           ELSE /\ gpc' = "course"
                /\ snapshot' = Refetched(snapshot, Some(lessons_completed))
                /\ props' = props
    /\ UNCHANGED <<addVars, course, courseResponse, res, pageVars>>

\* Lines 62-150: the completed lessons are formatted, the course is read and
\* the view is built.  linked: the enrollment read carries its course.
FetchCourse ==
    /\ gpc = "course"
    /\ IF Malformed(snapshot[1])
         THEN /\ Catch(Error("Cannot read properties of null"))
              /\ UNCHANGED <<courseResponse, courseData>>
       ELSE \E linked \in BOOLEAN, response \in CourseResponses :
              IF ~linked
                THEN /\ Catch(Error("Cannot read properties of undefined"))
                     /\ UNCHANGED <<courseResponse, courseData>>
              ELSE /\ courseResponse' = response
                   /\ IF Failed(response)
                        THEN /\ Catch(Error("Failed to fetch course"))
                             /\ UNCHANGED courseData
                      ELSE /\ gpc' = "returned"
                           /\ props' = ViewProps(snapshot[1], course)
                           /\ courseData' = Some(SortedInPlace(course))
    /\ UNCHANGED <<addVars, course, snapshot, enrollmentResponse, res, listed,
                   buttonVars>>

\* res.status(st).json(json) after the handler made fetches store calls.
Reply(st, fetches, json) == [status |-> st, fetches |-> fetches, body |-> json]

\* The response of the handler to the outcome of a read that is not ok
\* (lines 1392-1397 and 1411-1416), sent after fetches store calls.
NotOkReply(response, fetches) ==
    IF ~response.threw /\ response.status = 404 THEN Reply(404, fetches, None)
    ELSE Reply(500, fetches, None)

\* An enrollment_id that is taken for a request with an identifier.
NeverMissing(enrollment_id) == FALSE

\* !enrollment_id (line 1377).
Missing(enrollment_id) == enrollment_id = None

\* handler of pages/api/lessons-to-complete.js (lines 1373-1458).
Handler(enrollment_id) ==
    /\ res = NoReply
    /\ IF Missing(enrollment_id)
         THEN res' = Reply(400, 0, None)
       ELSE \E first \in EnrollmentResponses, linked \in BOOLEAN,
               second \in CourseResponses :
              res' = IF Failed(first) THEN NotOkReply(first, 1)
                     ELSE IF ~linked THEN Reply(404, 1, None)
                     ELSE IF Failed(second) THEN NotOkReply(second, 2)
                     ELSE Reply(200, 2, Some(FormattedCourse(course)))
    /\ UNCHANGED <<addVars, course, gpc, snapshot, enrollmentResponse,
                   courseResponse, props, pageVars>>

\* A page on which no lesson counts as completed.
NeverCompleted(completedLessons, id) == FALSE

\* isLessonCompleted (lines 300-302).
IsLessonCompleted(completedLessons, id) ==
    \E i \in DOMAIN completedLessons : completedLessons[i].id = id

\* The rows of one module: its lessons that are not completed (lines 398-399).
ModuleRows(module, completedLessons) ==
    LET IsOpen(lesson) == ~IsLessonCompleted(completedLessons, lesson.id)
        open == SelectSeq(module.lessons, IsOpen)
    IN  [j \in DOMAIN open |-> open[j].id]

RECURSIVE FlatMap(_, _, _)
\* The flatMap of lines 397-410 over modules[from..].
FlatMap(modules, from, completedLessons) ==
    IF from > Len(modules) THEN << >>
    ELSE ModuleRows(modules[from], completedLessons)
             \o FlatMap(modules, from + 1, completedLessons)

\* EnrollmentPage (lines 225-420) renders the props: the error page lists no
\* lesson, the progress page lists the lessons to complete.
Render ==
    /\ gpc = "returned"
    /\ listed = None
    /\ listed' = IF props.error # None THEN Some(<< >>)
                 ELSE Some(FlatMap(props.lessonsToComplete.modules, 1,
                                   props.completedLessons))
    /\ UNCHANGED <<addVars, viewVars, courseData, buttonVars>>

\* The identifiers a request may carry in enrollment_id.
EnrollmentIds == {None, Some("E1")}

\* Views of every course and every completion list, without a completion.
BuildInit ==
    /\ AddIdle
    /\ course \in RawCourses
    /\ ViewIdle
    /\ PageIdle

BuildNext ==
    \/ GetEnrollment(None)
    \/ FetchCourse
    \/ Render

BuildSpec == BuildInit /\ [][BuildNext]_vars

\* Requests to the lessons-to-complete handler, for every course.
HandlerInit ==
    /\ BuildInit
    /\ lessons_completed = << >>

HandlerNext == \E enrollment_id \in EnrollmentIds : Handler(enrollment_id)

HandlerSpec == HandlerInit /\ [][HandlerNext]_vars

----------------------------------------------------------------------------
\* The lesson page: Page and handleMarkAsCompleted (lines 1118-1260).

\* The response of /api/add-lesson: its status, the error field of its JSON
\* body (null when the body has none) and whether the body parses as JSON.
ApiResponse(st, error, parses) ==
    [threw |-> FALSE, status |-> st, error |-> error, parses |-> parses]

\* fetch rejected: no response.
ApiFailure == [threw |-> TRUE, status |-> 0, error |-> None, parses |-> FALSE]

ApiResponses ==
    {ApiResponse(200, None, TRUE), ApiResponse(201, None, TRUE),
     ApiResponse(404, Some("Lesson not found"), TRUE),
     ApiResponse(500, None, TRUE), ApiResponse(503, None, FALSE), ApiFailure}

\* The state the handler sets for a response (lines 1129-1144).
ButtonStateFor(response) ==
    IF response.threw THEN "error"
    ELSE IF response.status = 200 THEN "alreadyCompleted"
    ELSE IF response.status = 201 THEN "completed"
    ELSE "error"

\* The message the handler sets for a response (lines 1135-1143); response.json()
\* throws into the catch block when the body does not parse.
ErrorMessageFor(response, message) ==
    IF response.threw THEN "Network error occurred"
    ELSE IF response.status \in {200, 201} THEN message
    ELSE IF ~response.parses THEN "Network error occurred"
    ELSE IF response.error = None THEN "An error occurred"
    ELSE response.error[1]

\* A button that is rendered in every state.
AlwaysClickable(state) == TRUE

\* The Mark as Completed button is rendered (line 1242).
Clickable(state) == state = "default"

\* The button of page p is clicked: handleMarkAsCompleted runs to its fetch
\* (lines 1124-1129).
Click(p) ==
    /\ Clickable(buttonState[p])
    /\ buttonState' = [buttonState EXCEPT ![p] = "loading"]
    /\ sent' = [sent EXCEPT ![p] = sent[p] + 1]
    /\ UNCHANGED <<addVars, viewVars, courseData, listed, errorMessage>>

\* The fetch of page p settles with response (lines 1129-1144).
Respond(p, response) ==
    /\ buttonState[p] = "loading"
    /\ buttonState' = [buttonState EXCEPT ![p] = ButtonStateFor(response)]
    /\ errorMessage' = [errorMessage EXCEPT ![p] =
                            ErrorMessageFor(response, errorMessage[p])]
    /\ UNCHANGED <<addVars, viewVars, courseData, listed, sent>>

\* Lesson pages open in several tabs, for every stored enrollment.
ButtonNext ==
    \/ \E p \in Procs : Click(p)
    \/ \E p \in Procs, response \in ApiResponses : Respond(p, response)

ButtonSpec == Init /\ [][ButtonNext]_vars

----------------------------------------------------------------------------
\* One progress-view request that may carry a lesson to complete.
ViewNext ==
    \/ \E completed_lesson_id \in {None} \cup {Some(id) : id \in LessonIds} :
          GetEnrollment(completed_lesson_id)
    \/ Refetch
    \/ FetchCourse
    \/ LessonLookup(1) /\ UNCHANGED <<viewVars, pageVars>>
    \/ Update(1) /\ UNCHANGED <<viewVars, pageVars>>

ViewSpec == Init /\ [][ViewNext]_vars

----------------------------------------------------------------------------
\* Vocabulary of the properties.

\* The completion set a list of rows stands for.
Ids(rows) == Range(CompletedLessonIds(rows))

\* How often lesson id occurs in a list of rows.
Occurrences(rows, id) == Count(rows, Row(id))

\* Request p's call met no failure: the lookup was ok and so was the PATCH, if
\* one was sent.
Clean(p) == Ok(lessonResponse[p]) /\ (patches[p] = 0 \/ Ok(updateResponse[p]))

\* Request p's addLesson returns in this step.
Returns(p) == pc[p] # "done" /\ pc'[p] = "done"

\* C1: Idempotence of completion. As long as no two calls overlap, a call that
\* meets no failure returns 201 when its lesson was neither stored at the start
\* nor written by an earlier call, and 200 otherwise (so 201 first, 200 on every
\* later call), and a lesson some call returned 201 for is stored exactly once.
C1_Idempotence ==
    [][\A p \in Procs :
          (Returns(p) /\ ~overlap' /\ Clean(p)') =>
              /\ status'[p] = IF lessonId[p] \in Ids(stored0) \cup applied
                              THEN 200 ELSE 201
              /\ \A id \in completed' : Occurrences(lessons_completed', id) = 1
      ]_vars

\* A second call for the same lesson returned 200 after a first returned 201.
C1_Witness ==
    \E p \in Procs :
        /\ ~overlap /\ pc[p] = "done" /\ status[p] = 200
        /\ lessonId[p] \in completed
        /\ Occurrences(lessons_completed, lessonId[p]) = 1

\* C2: Lost update. When exactly two calls, for different lessons a and b,
\* overlapped (so both computed their list from the same read S, the initial
\* store) and both returned 201, the stored set is S + a or S + b: one of the
\* two completions is missing.
C2_LostUpdate ==
    \A p, q \in Procs :
        (/\ p # q /\ ncalls = 2 /\ overlap
         /\ pc[p] = "done" /\ pc[q] = "done"
         /\ status[p] = 201 /\ status[q] = 201
         /\ lessonId[p] # lessonId[q])
        => /\ Ids(lessons_completed) \in
                 {Ids(stored0) \cup {lessonId[p]}, Ids(stored0) \cup {lessonId[q]}}
           /\ ~({lessonId[p], lessonId[q]} \subseteq Ids(lessons_completed))

\* Both calls returned 201 and the first lesson is gone from a non-empty set.
C2_Witness ==
    \E p, q \in Procs :
        /\ p # q /\ ncalls = 2 /\ overlap
        /\ pc[p] = "done" /\ pc[q] = "done"
        /\ status[p] = 201 /\ status[q] = 201
        /\ lessonId[p] # lessonId[q]
        /\ Ids(stored0) # {}
        /\ Ids(lessons_completed) = Ids(stored0) \cup {lessonId[q]}
        /\ lessonId[p] \notin Ids(lessons_completed)

\* C3: Same-lesson concurrency is benign. While every call so far was for the
\* same lesson l, in any interleaving, the store holds either the initial list
\* (nothing written) or the initial ids followed by l, as one call alone would
\* leave it; l is then stored exactly once.
C3_SameLessonBenign ==
    \A id \in LessonIds :
        asked = {id} =>
            \/ lessons_completed = stored0
            \/ /\ id \notin Ids(stored0)
               /\ lessons_completed =
                      LessonCompletions(Append(CompletedLessonIds(stored0), id))
               /\ Occurrences(lessons_completed, id) = 1

\* Two overlapping calls for the same lesson both sent a PATCH and returned 201.
C3_Witness ==
    \E p, q \in Procs :
        /\ p # q /\ overlap /\ asked = {lessonId[p]}
        /\ pc[p] = "done" /\ pc[q] = "done"
        /\ lessonId[p] = lessonId[q]
        /\ patches[p] = 1 /\ patches[q] = 1
        /\ status[p] = 201 /\ status[q] = 201
        /\ Occurrences(lessons_completed, lessonId[p]) = 1
        /\ Ids(stored0) # {}

\* C4: When the lesson is absent from the enrollment read, addLesson sends one
\* PATCH whose lessons_completed is exactly the ids read plus the lesson, once;
\* an accepted PATCH returns 201 and leaves the store holding that list, and
\* with no concurrent writer the stored set grows from S to S + lesson.
C4_ReplaceWithUnion ==
    [][\A p \in Procs :
          /\ (/\ pc[p] = "lesson" /\ Ok(lessonResponse'[p])
              /\ lessonId[p] \notin Ids(enrollment[p]))
             => /\ pc'[p] = "update" /\ patches'[p] = 1
                /\ Ids(body'[p]) = Ids(enrollment[p]) \cup {lessonId[p]}
                /\ Occurrences(body'[p], lessonId[p]) = 1
                /\ Len(body'[p]) = Len(CompletedLessonIds(enrollment[p])) + 1
          /\ (pc[p] = "update" /\ Ok(updateResponse'[p]))
             => /\ status'[p] = 201 /\ patches'[p] = 1
                /\ lessons_completed' = body[p]
                /\ ~overlap => Ids(lessons_completed') =
                                   Ids(lessons_completed) \cup {lessonId[p]}
      ]_vars

\* Scenario B: completed = [L1], L2 is completed, the store then holds [L1, L2].
C4_Witness ==
    \E p \in Procs :
        /\ pc[p] = "done" /\ status[p] = 201 /\ lessonId[p] = "L2"
        /\ ~overlap /\ ncalls = 1
        /\ stored0 = <<Row("L1")>>
        /\ lessons_completed = <<Row("L1"), Row("L2")>>

\* C5: AlreadyCompleted is a no-op. A call whose lookup is ok and whose lesson
\* is in the enrollment read returns 200, and a call that returns 200 has sent
\* no PATCH and leaves the stored list as it was.
C5_AlreadyCompletedNoOp ==
    [][\A p \in Procs :
          /\ (/\ pc[p] = "lesson" /\ Ok(lessonResponse'[p])
              /\ lessonId[p] \in Ids(enrollment[p]))
             => Returns(p) /\ status'[p] = 200
          /\ (Returns(p) /\ status'[p] = 200)
             => patches'[p] = 0 /\ lessons_completed' = lessons_completed
      ]_vars

\* Scenario C: the lesson is stored already, the call returns 200 and the
\* list is the one it was.
C5_Witness ==
    \E p \in Procs :
        /\ pc[p] = "done" /\ status[p] = 200 /\ patches[p] = 0
        /\ ncalls = 1 /\ lessonId[p] \in Ids(stored0)
        /\ Len(stored0) = 2
        /\ lessons_completed = stored0

\* C6: When the lookup answers 404, addLesson returns 404 in that step, before
\* the membership check, having sent no PATCH; the store is unchanged.
C6_NotFoundNoWrite ==
    [][\A p \in Procs :
          (pc[p] = "lesson" /\ lessonResponse'[p].status = 404)
             => /\ Returns(p) /\ status'[p] = 404
                /\ patches'[p] = 0
                /\ lessons_completed' = lessons_completed
      ]_vars

\* A 404 for a lesson that is in the completion list.
C6_Witness ==
    \E p \in Procs :
        /\ pc[p] = "done" /\ status[p] = 404 /\ lessonResponse[p].status = 404
        /\ ncalls = 1 /\ lessonId[p] \in Ids(stored0)
        /\ lessons_completed = stored0

\* Request p's call fails in this step: the lookup threw or answered neither
\* ok nor 404, or the PATCH was rejected or threw.
FailsNow(p) ==
    /\ Returns(p)
    /\ \/ lessonResponse'[p].threw
       \/ ~Ok(lessonResponse'[p]) /\ lessonResponse'[p].status # 404
       \/ pc[p] = "update" /\ ~Ok(updateResponse'[p])

\* A PATCH of request p is rejected by the store in this step.
RejectedNow(p) ==
    /\ Returns(p) /\ pc[p] = "update"
    /\ ~updateResponse'[p].threw /\ ~Ok(updateResponse'[p])

C8_RetryConverges ==
    \A p \in Procs :
        (/\ pc[p] = "done" /\ status[p] \in {200, 201}
         /\ asked = {lessonId[p]})
        => Ids(lessons_completed) = Ids(stored0) \cup {lessonId[p]}

\* Three attempts one after the other: a rejected PATCH is still on record,
\* the last attempt returned 201.
C8_Witness ==
    \E p, q \in Procs :
        /\ ~overlap /\ ncalls = 3 /\ asked = {lessonId[p]}
        /\ pc[q] = "done" /\ status[q] = 500 /\ patches[q] = 1
        /\ ~updateResponse[q].applied
        /\ pc[p] = "done" /\ status[p] = 201
        /\ Ids(stored0) # {}
        /\ Ids(lessons_completed) = Ids(stored0) \cup {lessonId[p]}

\* C9 as stated: the list addLesson writes back holds every lesson id at most
\* once, whatever the stored list it was read from.
C9_WritesDeduplicated ==
    \A p \in Procs :
        pc[p] = "update" =>
            \A id \in Ids(body[p]) : Occurrences(body[p], id) <= 1

\* C10: At most one write per call. No call has sent more than one PATCH, and
\* a call that returned 200 or 404 has sent none.
C10_AtMostOneWrite ==
    \A p \in Procs :
        /\ patches[p] <= 1
        /\ (pc[p] = "done" /\ status[p] \in {200, 404}) => patches[p] = 0

\* Calls on each path: one wrote once, one returned 200 without writing.
C10_Witness ==
    \E p, q \in Procs :
        /\ pc[p] = "done" /\ status[p] = 201 /\ patches[p] = 1
        /\ pc[q] = "done" /\ status[q] = 200 /\ patches[q] = 0
        /\ lessonId[p] = lessonId[q]

----------------------------------------------------------------------------
\* Vocabulary of the properties of the progress view.

\* getServerSideProps returned the view it built.
Built == gpc = "returned" /\ props.error = None

\* getServerSideProps returned the fallback of its catch block.
Fallback == gpc = "returned" /\ props.error # None

\* The lessons of a built tree, as <<module index, lesson index>>.
TreeLessons(tree) ==
    {ij \in (DOMAIN tree.modules) \X (1..(MaxLessons + 1)) :
        ij[2] \in DOMAIN tree.modules[ij[1]].lessons}

\* The lesson ids of a built tree.
TreeIds(tree) == {tree.modules[ij[1]].lessons[ij[2]].id : ij \in TreeLessons(tree)}

----------------------------------------------------------------------------
\* C13: in every view getServerSideProps returns, the built one and the error
\* fallback alike, totalLessons = completedCount + remainingCount, and
\* totalLessons is the number of lessons of the tree in lessonsToComplete.
C13_StatsSum ==
    gpc = "returned" =>
        LET stats == props.progressStats
        IN  /\ stats.totalLessons = stats.completedCount + stats.remainingCount
            /\ stats.totalLessons = Cardinality(TreeLessons(props.lessonsToComplete))

\* A built view of a course with lessons in which more rows are completed
\* than the course has lessons.
C13_Witness ==
    /\ Built
    /\ props.progressStats.totalLessons > 0
    /\ props.progressStats.completedCount > props.progressStats.totalLessons

----------------------------------------------------------------------------
\* C12: a request to the handler without enrollment_id is answered with 400
\* and no call to the store was made for it, neither a read nor a write; a
\* request that carries an enrollment_id is never answered with 400.
C12_MissingIdRejected ==
    [][/\ Handler(None) =>
            /\ res'.status = 400
            /\ res'.fetches = 0
            /\ lessons_completed' = lessons_completed
            /\ course' = course
       /\ \A enrollment_id \in EnrollmentIds \ {None} :
            Handler(enrollment_id) => res'.status # 400 /\ res'.fetches > 0]_vars

\* The handler answered 400 for a course that has lessons.
C12_Witness ==
    /\ res.status = 400
    /\ res.fetches = 0
    /\ course.modules # None
    /\ \E i \in DOMAIN course.modules[1] : course.modules[1][i].lessons # None

----------------------------------------------------------------------------
\* C14: in every view returned, remainingCount is at least 0; it is 0 when
\* more lessons are completed than the course holds, and the view is built.
C14_RemainingNonNegative ==
    gpc = "returned" => props.progressStats.remainingCount >= 0

----------------------------------------------------------------------------
\* C15: in a built view, completedCount is the number of distinct completed
\* lesson ids that are lessons of the built tree, and every item of
\* completedLessons is a lesson of the built tree.
C15_DriftExcluded ==
    Built =>
        LET ids == TreeIds(props.lessonsToComplete)
        IN  /\ props.progressStats.completedCount =
                   Cardinality(Ids(snapshot[1]) \cap ids)
            /\ \A i \in DOMAIN props.completedLessons :
                   props.completedLessons[i].id \in ids

----------------------------------------------------------------------------
\* The raw modules of course c, and the raw lessons of module m.
ModulesOf(c) == IF c.modules = None THEN << >> ELSE c.modules[1]

LessonsOf(m) == IF m.lessons = None THEN << >> ELSE m.lessons[1]

\* The position in raw of the node with this id.
OriginalIndex(raw, id) == CHOOSE k \in DOMAIN raw : raw[k].id = id

\* built lists the nodes of raw, each once, ascending by (sort, original
\* index) with a missing sort as 0, and gives each node its sort or 0.
Canonical(raw, built) ==
    /\ Len(built) = Len(raw)
    /\ {built[i].id : i \in DOMAIN built} = {raw[i].id : i \in DOMAIN raw}
    /\ \A i \in DOMAIN built :
        LET node == raw[OriginalIndex(raw, built[i].id)]
        IN  built[i].sort = IF node.sort = None THEN 0 ELSE node.sort[1]
    /\ \A i, j \in DOMAIN built :
        i < j =>
            \/ built[i].sort < built[j].sort
            \/ /\ built[i].sort = built[j].sort
               /\ OriginalIndex(raw, built[i].id) < OriginalIndex(raw, built[j].id)

\* The tree is the canonical tree of course c.
CanonicalTree(c, tree) ==
    /\ Canonical(ModulesOf(c), tree.modules)
    /\ \A i \in DOMAIN tree.modules :
        LET m == ModulesOf(c)[OriginalIndex(ModulesOf(c), tree.modules[i].id)]
        IN  Canonical(LessonsOf(m), tree.modules[i].lessons)

\* C16: the tree built from any raw course, by getServerSideProps and by the
\* handler, lists the modules ascending by (sort, original index) and each
\* module's lessons ascending by (sort, original index), a missing sort
\* counting as 0; equal sorts keep their original order and the nodes of the
\* tree are a permutation of the raw nodes.
C16_StableCanonicalOrder ==
    /\ Built => CanonicalTree(course, props.lessonsToComplete)
    /\ res.status = 200 => CanonicalTree(course, res.body[1])

\* A built tree whose first module was the second raw module, whose two
\* modules hold two lessons each, one with its lessons reordered and one with
\* equal sorts.
C16_Witness ==
    /\ Built
    /\ Len(props.lessonsToComplete.modules) = 2
    /\ props.lessonsToComplete.modules[1].id = ModuleIds[2]
    /\ \E i, k \in 1..2 :
        /\ i # k
        /\ Len(props.lessonsToComplete.modules[i].lessons) = 2
        /\ props.lessonsToComplete.modules[i].lessons[1].id = LessonTable[3 - i][2]
        /\ Len(props.lessonsToComplete.modules[k].lessons) = 2
        /\ props.lessonsToComplete.modules[k].lessons[1].sort =
               props.lessonsToComplete.modules[k].lessons[2].sort

----------------------------------------------------------------------------
\* C17: when the course read succeeds the view is built; if the course's
\* modules are null the tree has no modules and the stats are {0, 0, 0}, and a
\* module whose lessons are null has no lessons in the tree.
C17_MissingDegradesToEmpty ==
    (gpc = "returned" /\ Ok(courseResponse)) =>
        /\ Built
        /\ course.modules = None =>
             /\ props.lessonsToComplete.modules = << >>
             /\ props.progressStats = [totalLessons |-> 0, completedCount |-> 0,
                                       remainingCount |-> 0]
        /\ \A i \in DOMAIN ModulesOf(course) :
             ModulesOf(course)[i].lessons = None =>
                \E k \in DOMAIN props.lessonsToComplete.modules :
                    /\ props.lessonsToComplete.modules[k].id = ModulesOf(course)[i].id
                    /\ props.lessonsToComplete.modules[k].lessons = << >>

----------------------------------------------------------------------------
\* C18: whatever the order of the completion rows the store returned, the
\* completedLessons of a built view are ascending by the sort of the owning
\* module and then by the sort of the lesson.
C18_CompletedInCourseOrder ==
    Built =>
        \A i, j \in DOMAIN props.completedLessons :
            i < j =>
                LET a == props.completedLessons[i]
                    b == props.completedLessons[j]
                IN  \/ OrZero(a.module.sort) < OrZero(b.module.sort)
                    \/ /\ OrZero(a.module.sort) = OrZero(b.module.sort)
                       /\ OrZero(a.sort) <= OrZero(b.sort)

\* A built view of two completed lessons of different modules, listed in the
\* reverse of the order of the store's rows, the first having the higher
\* lesson sort.
C18_Witness ==
    /\ Built
    /\ Len(props.completedLessons) = 2
    /\ props.completedLessons[1].id = snapshot[1][2].lms_lessons_id
    /\ props.completedLessons[1].id # props.completedLessons[2].id
    /\ OrZero(props.completedLessons[1].sort) > OrZero(props.completedLessons[2].sort)

----------------------------------------------------------------------------
\* C20: when the read of the enrollment or of its course answers 404,
\* getServerSideProps reports status 404 and returns no progress data.
C20_NotFoundIs404 ==
    (/\ gpc = "returned"
     /\ enrollmentResponse = Response(404) \/ courseResponse = Response(404)) =>
        /\ props.errorStatus = Some(404)
        /\ props.enrollment = None
        /\ props.completedLessons = << >>

----------------------------------------------------------------------------
\* C11: the status a completion delivers is 200 exactly when the lesson was
\* already in the completion list, 201 exactly when the update added it, 404
\* when the lesson lookup answers 404, and 500 for every other failure of a
\* store call; a progress-view request whose enrollment is not found reports
\* 404.
C11_StatusMapping ==
    /\ pc[1] = "done" =>
        /\ status[1] = 200 <=>
              (Ok(lessonResponse[1]) /\ lessonId[1] \in Ids(stored0))
        /\ status[1] = 201 <=>
              (patches[1] > 0 /\ Ok(updateResponse[1]) /\ lessonId[1] \in applied)
        /\ lessonResponse[1] = Response(404) => status[1] = 404
        /\ (/\ ~Clean(1)
            /\ lessonResponse[1] # Response(404)) => status[1] = 500
    /\ (gpc = "returned" /\ snapshot = None /\ enrollmentResponse = Response(404)) =>
        props.errorStatus = Some(404)

----------------------------------------------------------------------------
\* C19: when the completion carried by a progress-view request returned 201,
\* the view built by that request lists the lesson in completedLessons and
\* counts every row of the stored completion list.
C19_ViewShowsCompletion ==
    (Built /\ pc[1] = "done" /\ status[1] = 201) =>
        /\ \E i \in DOMAIN props.completedLessons :
              props.completedLessons[i].id = lessonId[1]
        /\ props.progressStats.completedCount = Len(lessons_completed)

----------------------------------------------------------------------------
\* C21: no step of getServerSideProps changes the stored completion list; a
\* request without completed_lesson_id starts no addLesson and sends no
\* PATCH; the stored list changes only in the step in which the store applies
\* the PATCH of an addLesson, and then to the body of that PATCH.
C21_AggregationNeverWrites ==
    [][/\ (\/ \E c \in {None} \cup {Some(id) : id \in LessonIds} : GetEnrollment(c)
           \/ Refetch
           \/ FetchCourse) => lessons_completed' = lessons_completed
       /\ GetEnrollment(None) => pc' = pc /\ patches' = patches
       /\ lessons_completed' # lessons_completed =>
            \E p \in Procs :
                /\ pc[p] = "update"
                /\ updateResponse'[p].applied
                /\ lessons_completed' = body[p]]_vars

\* A view was built by a request without completed_lesson_id while the
\* enrollment holds completions: no addLesson ran and the store is as before.
C21_Witness ==
    /\ Built
    /\ asked = {}
    /\ pc[1] = "idle"
    /\ lessons_completed # << >>
    /\ lessons_completed = stored0

----------------------------------------------------------------------------
\* C22: after a view was built, the course object the build was given is as
\* the course read returned it: its modules and the lessons of every module
\* are in their original order.
C22_BuilderIsPure == Built => courseData = Some(course)

----------------------------------------------------------------------------
\* C23: when the completion rows of the enrollment hold an entry with no
\* lesson and every read the request made was ok, a view is still built; no
\* error is returned.
C23_MalformedNeverFails ==
    (/\ gpc = "returned"
     /\ Ok(enrollmentResponse)
     /\ Malformed(snapshot[1])
     /\ courseResponse = NoResponse \/ Ok(courseResponse)) => Built

----------------------------------------------------------------------------
\* Where the lesson with this id stands in the tree: <<module, lesson>>.
TreePosition(tree, id) ==
    CHOOSE ij \in TreeLessons(tree) :
        tree.modules[ij[1]].lessons[ij[2]].id = id

\* C24: on the rendered progress page every lesson of the built tree is
\* either listed under Lessons to Complete, once, or in completedLessons,
\* never both and never neither, and the lessons listed stand in the order of
\* the tree, module by module.
C24_FlagMatchesMembership ==
    (Built /\ listed # None) =>
        LET tree == props.lessonsToComplete
            rows == listed[1]
            done == {props.completedLessons[i].id : i \in DOMAIN props.completedLessons}
        IN  /\ \A id \in TreeIds(tree) : id \in Range(rows) <=> id \notin done
            /\ Range(rows) \subseteq TreeIds(tree)
            /\ \A a, b \in DOMAIN rows :
                 a < b =>
                    LET x == TreePosition(tree, rows[a])
                        y == TreePosition(tree, rows[b])
                    IN  x[1] < y[1] \/ (x[1] = y[1] /\ x[2] < y[2])

\* A rendered page of a tree with a completed lesson, which is not listed,
\* and two lessons to complete.
C24_Witness ==
    /\ Built
    /\ listed # None
    /\ Len(listed[1]) >= 2
    /\ \E i \in DOMAIN props.completedLessons :
          props.completedLessons[i].id \in TreeIds(props.lessonsToComplete)

----------------------------------------------------------------------------
\* C25: in a request that carries a lesson to complete, the enrollment is
\* read again, and the view returned, only after addLesson has returned.
C25_WriteBeforeReread ==
    (asked # {} /\ gpc \in {"course", "returned"}) => pc[1] = "done"

----------------------------------------------------------------------------
\* C26: while no two calls overlap, every PATCH the store applies leaves in
\* the store every lesson that was stored before it.
C26_MonotonicGrowth ==
    [][\A p \in Procs :
          (/\ ~overlap
           /\ pc[p] = "update"
           /\ pc'[p] = "done"
           /\ updateResponse'[p].applied) =>
              /\ Ids(lessons_completed) \subseteq Ids(lessons_completed')
              /\ lessonId[p] \in Ids(lessons_completed')]_vars

\* Two calls that did not overlap were applied to a store that held a
\* lesson: the store holds all three.
C26_Witness ==
    /\ ~overlap
    /\ Cardinality(applied) = 2
    /\ Ids(stored0) \ applied # {}
    /\ (Ids(stored0) \cup applied) \subseteq Ids(lessons_completed)

----------------------------------------------------------------------------
\* A read of the progress-view request failed or an exception was thrown.
ReadFailed ==
    \/ Failed(enrollmentResponse)
    \/ courseResponse # NoResponse /\ Failed(courseResponse)
    \/ snapshot # None /\ Malformed(snapshot[1])

\* C27: when a read of the request failed or threw, the props hold an error
\* message and an error status, enrollment null, no completed lessons, no
\* modules and the stats {0, 0, 0}; no props hold both an error and an
\* enrollment.
C27_FallbackShape ==
    gpc = "returned" =>
        /\ ReadFailed =>
            /\ props.error # None
            /\ props.errorStatus # None
            /\ props.enrollment = None
            /\ props.completedLessons = << >>
            /\ props.lessonsToComplete.modules = << >>
            /\ props.progressStats = [totalLessons |-> 0, completedCount |-> 0,
                                      remainingCount |-> 0]
        /\ ~(props.error # None /\ props.enrollment # None)

\* The re-read of the enrollment failed after the completion was written.
C27_Witness ==
    /\ gpc = "returned"
    /\ Failed(enrollmentResponse)
    /\ snapshot # None
    /\ lessons_completed # stored0
    /\ props.error # None

----------------------------------------------------------------------------
\* The states of the button in which the page shows a result.
Terminal == {"alreadyCompleted", "completed", "error"}

\* C28: the button starts in 'default'; its state changes only from
\* 'default' to 'loading', with one request sent, and from 'loading' to
\* 'alreadyCompleted' for a response with status 200, to 'completed' for 201
\* and to 'error' for any other status or an exception; a request is sent
\* only from 'default', so a page sends at most one, and the three result
\* states are never left.
C28_ButtonStateMachine ==
    /\ \A p \in Procs : buttonState[p] = "default" /\ sent[p] = 0
    /\ [][\A p \in Procs :
            /\ buttonState'[p] # buttonState[p] =>
                 \/ /\ buttonState[p] = "default"
                    /\ buttonState'[p] = "loading"
                    /\ sent'[p] = sent[p] + 1
                 \/ /\ buttonState[p] = "loading"
                    /\ buttonState'[p] \in Terminal
                    /\ sent'[p] = sent[p]
            /\ sent'[p] # sent[p] => buttonState[p] = "default"
            /\ sent'[p] <= 1
            /\ buttonState[p] \in Terminal => buttonState'[p] = buttonState[p]
            /\ \A response \in ApiResponses :
                 Respond(p, response) =>
                    /\ buttonState'[p] = "alreadyCompleted" <=>
                          (~response.threw /\ response.status = 200)
                    /\ buttonState'[p] = "completed" <=>
                          (~response.threw /\ response.status = 201)
                    /\ buttonState'[p] = "error" <=>
                          (response.threw \/ response.status \notin {200, 201})]_vars

\* One page ended in 'completed' and another in 'error' after a network
\* exception, each after one request.
C28_Witness ==
    \E p, q \in Procs :
        /\ buttonState[p] = "completed"
        /\ buttonState[q] = "error"
        /\ errorMessage[q] = "Network error occurred"
        /\ sent[p] = 1
        /\ sent[q] = 1

====
